---- MODULE Spec2Model ----
(***************************************************************************)
(* A model of the CDD Assistant (src/app.py): the agentic research loop    *)
(* run_cdd_research, the report extractor parse_report_json with its       *)
(* repair passes, the risk scoring utilities with render_risk_scoring, and *)
(* the data they work on.  Spec is the research loop; ExtractSpec applies  *)
(* the extractor to texts, ScoreSpec the scoring to reports and LevelSpec  *)
(* the score bands to the scores of the scale.                             *)
(*                                                                         *)
(* Texts are sequences of symbols.  A symbol is one character, except for  *)
(* the fixed words the code searches for, which are one symbol each: the   *)
(* two report tags, the word subject_name, the fence word json and the     *)
(* JSON literals.                                                          *)
(***************************************************************************)
EXTENDS Integers, Sequences, FiniteSets, TLC

\* ------------------------------------------------------------------------
\* Symbols of a text
\* ------------------------------------------------------------------------
OPEN_TAG  == "<CDD_REPORT_JSON>"
CLOSE_TAG == "</CDD_REPORT_JSON>"
QUOTE     == "\""
BACKSLASH == "\\"
NEWLINE   == "\n"
TAB       == "\t"
SPACE     == " "
\* the three-backtick code fence marker, one symbol
FENCE     == "<fence>"
JSON_WORD == "json"
\* a run of more than INT_MAX_STR_DIGITS digits, one symbol: int() of the
\* decoder refuses it with a ValueError
INT_MAX_STR_DIGITS == 4300
LONG_DIGITS == "<4301 digits>"
ANCHOR    == "subject_name"

\* str.strip() and the regex class \s: the whitespace characters
Whitespace == {SPACE, NEWLINE, TAB}

Digits ==
    {"0", "1", "2", "3", "4", "5", "6", "7", "8", "9"}

DigitValue(d) ==
    CASE d = "0" -> 0 [] d = "1" -> 1 [] d = "2" -> 2 [] d = "3" -> 3
      [] d = "4" -> 4 [] d = "5" -> 5 [] d = "6" -> 6 [] d = "7" -> 7
      [] d = "8" -> 8 [] d = "9" -> 9

\* ------------------------------------------------------------------------
\* Values json.loads produces
\* ------------------------------------------------------------------------
\* None of Python: the no-report result of the extractor, and JSON null
None == [t |-> "None"]

JObj(f)  == [t |-> "dict", v |-> f]
JArr(a)  == [t |-> "list", v |-> a]
JStr(s)  == [t |-> "str", v |-> s]
JNum(n)  == [t |-> "int", v |-> n]
JBool(b) == [t |-> "bool", v |-> b]

EmptyDict == [k \in {} |-> None]

\* d[k] = v of a Python dict: a later key replaces an earlier equal one
DictSet(d, k, v) ==
    [x \in DOMAIN d \cup {k} |-> IF x = k THEN v ELSE d[x]]

\* A failed step of the decoder (json.JSONDecodeError)
Fail == [ok |-> FALSE, val |-> None, next |-> 0]

\* An exception that is no JSONDecodeError: it passes every except clause
\* of _repair_and_parse and leaves parse_report_json
Raised == [t |-> "raise"]
Raise == [ok |-> FALSE, val |-> Raised, next |-> 0]
Ok(v, n) == [ok |-> TRUE, val |-> v, next |-> n]

\* ------------------------------------------------------------------------
\* json.loads
\* ------------------------------------------------------------------------
RECURSIVE SkipWs(_, _)
SkipWs(s, i) ==
    IF i <= Len(s) /\ s[i] \in Whitespace THEN SkipWs(s, i + 1) ELSE i

\* The body of a string literal from position i (after the opening quote)
\* to the closing quote; a control character inside the literal is an error.
RECURSIVE ScanString(_, _, _)
ScanString(s, i, acc) ==
    IF i > Len(s) THEN Fail
    ELSE IF s[i] = QUOTE THEN Ok(JStr(acc), i + 1)
    ELSE IF s[i] \in {NEWLINE, TAB} THEN Fail
    ELSE IF s[i] = BACKSLASH THEN
        IF i + 1 > Len(s) THEN Fail
        ELSE IF s[i + 1] \in {QUOTE, BACKSLASH} THEN
            ScanString(s, i + 2, Append(acc, s[i + 1]))
        ELSE IF s[i + 1] = "n" THEN ScanString(s, i + 2, Append(acc, NEWLINE))
        ELSE IF s[i + 1] = "t" THEN ScanString(s, i + 2, Append(acc, TAB))
        ELSE Fail
    ELSE ScanString(s, i + 1, Append(acc, s[i]))

RECURSIVE ScanDigits(_, _, _)
ScanDigits(s, i, acc) ==
    IF i <= Len(s) /\ s[i] \in Digits
    THEN ScanDigits(s, i + 1, acc * 10 + DigitValue(s[i]))
    ELSE IF i <= Len(s) /\ s[i] = LONG_DIGITS THEN Raise
    ELSE Ok(JNum(acc), i)

\* An integer literal: 0, or a non-zero digit followed by digits
ScanNumber(s, i) ==
    IF s[i] = "0" THEN Ok(JNum(0), i + 1) ELSE ScanDigits(s, i, 0)

RECURSIVE ScanValue(_, _)
RECURSIVE ScanMembers(_, _, _)
RECURSIVE ScanElements(_, _, _)

\* After a member value val, at position e: the object ends or goes on
MemberEnd(s, e, d) ==
    IF e > Len(s) THEN Fail
    ELSE IF s[e] = "}" THEN Ok(JObj(d), e + 1)
    ELSE IF s[e] = "," THEN ScanMembers(s, SkipWs(s, e + 1), d)
    ELSE Fail

MemberValue(s, key, val, d) ==
    IF ~val.ok THEN val
    ELSE MemberEnd(s, SkipWs(s, val.next), DictSet(d, key.v, val.val))

\* After a key, at position c: the colon and the value
MemberColon(s, key, c, d) ==
    IF c > Len(s) \/ s[c] # ":" THEN Fail
    ELSE MemberValue(s, key, ScanValue(s, SkipWs(s, c + 1)), d)

MemberKey(s, key, d) ==
    IF ~key.ok THEN Fail
    ELSE MemberColon(s, key.val, SkipWs(s, key.next), d)

\* The members of an object from position i, which holds the opening quote
\* of a key; d is the dict built so far.
ScanMembers(s, i, d) ==
    IF i > Len(s) \/ s[i] # QUOTE THEN Fail
    ELSE MemberKey(s, ScanString(s, i + 1, <<>>), d)

\* After an element, at position e: the array ends or goes on
ElementEnd(s, e, a) ==
    IF e > Len(s) THEN Fail
    ELSE IF s[e] = "]" THEN Ok(JArr(a), e + 1)
    ELSE IF s[e] = "," THEN ScanElements(s, SkipWs(s, e + 1), a)
    ELSE Fail

ElementValue(s, val, a) ==
    IF ~val.ok THEN val
    ELSE ElementEnd(s, SkipWs(s, val.next), Append(a, val.val))

\* The elements of an array from position i, the start of an element
ScanElements(s, i, a) == ElementValue(s, ScanValue(s, i), a)

\* After an opening brace, at position j
ObjectBody(s, j) ==
    IF j <= Len(s) /\ s[j] = "}" THEN Ok(JObj(EmptyDict), j + 1)
    ELSE ScanMembers(s, j, EmptyDict)

\* After an opening bracket, at position j
ArrayBody(s, j) ==
    IF j <= Len(s) /\ s[j] = "]" THEN Ok(JArr(<<>>), j + 1)
    ELSE ScanElements(s, j, <<>>)

ScanValue(s, i) ==
    IF i > Len(s) THEN Fail
    ELSE IF s[i] = QUOTE THEN ScanString(s, i + 1, <<>>)
    ELSE IF s[i] = "{" THEN ObjectBody(s, SkipWs(s, i + 1))
    ELSE IF s[i] = "[" THEN ArrayBody(s, SkipWs(s, i + 1))
    ELSE IF s[i] = "null" THEN Ok(None, i + 1)
    ELSE IF s[i] = "true" THEN Ok(JBool(TRUE), i + 1)
    ELSE IF s[i] = "false" THEN Ok(JBool(FALSE), i + 1)
    ELSE IF s[i] \in Digits THEN ScanNumber(s, i)
    ELSE IF s[i] = LONG_DIGITS THEN Raise
    ELSE Fail

\* The whole text must be one value and whitespace
WholeText(s, r) ==
    IF ~r.ok THEN r
    ELSE IF SkipWs(s, r.next) = Len(s) + 1 THEN r ELSE Fail

\* json.loads(s): [ok, val]; ok is FALSE where Python raises: val is None
\* for a JSONDecodeError and Raised for any other exception
json_loads(s) == WholeText(s, ScanValue(s, SkipWs(s, 1)))

\* ------------------------------------------------------------------------
\* _repair_and_parse
\* ------------------------------------------------------------------------
RECURSIVE LStrip(_)
LStrip(s) ==
    IF s # <<>> /\ Head(s) \in Whitespace THEN LStrip(Tail(s)) ELSE s

RECURSIVE RStrip(_)
RStrip(s) ==
    IF s # <<>> /\ s[Len(s)] \in Whitespace
    THEN RStrip(SubSeq(s, 1, Len(s) - 1)) ELSE s

\* str.strip()
Strip(s) == LStrip(RStrip(s))

\* re.sub of a leading fence, an optional json word and whitespace
StripFenceStart(s) ==
    IF s # <<>> /\ Head(s) = FENCE THEN
        LET r == Tail(s) IN
        IF r # <<>> /\ Head(r) = JSON_WORD THEN LStrip(Tail(r)) ELSE LStrip(r)
    ELSE s

\* re.sub of whitespace and a fence at the end of the text
StripFenceEnd(s) ==
    IF s # <<>> /\ s[Len(s)] = FENCE
    THEN RStrip(SubSeq(s, 1, Len(s) - 1)) ELSE s

\* Pass 2: re.sub(",\s*([}\]])", "\1"): each comma that is followed by
\* optional whitespace and a closing brace or bracket is deleted together
\* with that whitespace, scanning from the left.
RECURSIVE RemoveTrailingCommas(_, _)
CommaStep(s, i, j) ==
    IF s[i] = "," /\ j <= Len(s) /\ s[j] \in {"}", "]"}
    THEN <<s[j]>> \o RemoveTrailingCommas(s, j + 1)
    ELSE <<s[i]>> \o RemoveTrailingCommas(s, i + 1)

RemoveTrailingCommas(s, i) ==
    IF i > Len(s) THEN <<>> ELSE CommaStep(s, i, SkipWs(s, i + 1))

\* Pass 3: every newline not preceded by a backslash becomes a space
CollapseNewlines(s) ==
    [i \in 1..Len(s) |->
        IF s[i] = NEWLINE /\ ~(i > 1 /\ s[i - 1] = BACKSLASH)
        THEN SPACE ELSE s[i]]

\* The blob after strip, the two fence substitutions and strip
Unfenced(text) == Strip(StripFenceEnd(StripFenceStart(Strip(text))))

\* Pass 3, tried when pass 2 raised
Pass3(blob2, p3) ==
    IF p3.ok THEN p3.val ELSE IF p3.val = Raised THEN Raised ELSE None

\* Pass 2, tried when pass 1 raised
Pass2(blob2, p2) ==
    IF p2.ok THEN p2.val
    ELSE IF p2.val = Raised THEN Raised
    ELSE Pass3(blob2, json_loads(CollapseNewlines(blob2)))

Pass1_RepairFirst(blob, p1) ==
    Pass2(RemoveTrailingCommas(blob, 1),
          json_loads(RemoveTrailingCommas(blob, 1)))

\* Pass 1: the blob as it stands
Pass1(blob, p1) ==
    IF p1.ok THEN p1.val
    ELSE IF p1.val = Raised THEN Raised
    ELSE Pass2(RemoveTrailingCommas(blob, 1),
               json_loads(RemoveTrailingCommas(blob, 1)))

RepairBlob(blob) == Pass1(blob, json_loads(blob))

_repair_and_parse(text) == RepairBlob(Unfenced(text))

\* ------------------------------------------------------------------------
\* parse_report_json
\* ------------------------------------------------------------------------
Positions(s, sym) == {i \in 1..Len(s) : s[i] = sym}

Min(S) == CHOOSE x \in S : \A y \in S : x <= y
Max(S) == CHOOSE x \in S : \A y \in S : x >= y

FirstAfter(S, o) == {c \in S : c > o}

TagPair(o, closes) == IF closes = {} THEN <<>> ELSE <<o, Min(closes)>>

\* re.search of the tag pair with a lazy body: the first start tag and the
\* first end tag after it; <<>> stands for no match
TagMatch(raw) ==
    IF Positions(raw, OPEN_TAG) = {} THEN <<>>
    ELSE TagPair(Min(Positions(raw, OPEN_TAG)),
                 FirstAfter(Positions(raw, CLOSE_TAG),
                            Min(Positions(raw, OPEN_TAG))))

\* Positions j where the quoted anchor "subject_name" starts
AnchorAt(s, j) ==
    /\ j + 2 <= Len(s)
    /\ s[j] = QUOTE /\ s[j + 1] = ANCHOR /\ s[j + 2] = QUOTE

\* The opening braces from which brace-free text leads to the quoted
\* anchor, with a closing brace somewhere after the anchor
BraceStarts(raw) ==
    {i \in Positions(raw, "{") :
        \E j \in (i + 1)..Len(raw) :
           /\ AnchorAt(raw, j)
           /\ \A k \in (i + 1)..(j - 1) : raw[k] \notin {"{", "}"}
           /\ \E e \in (j + 3)..Len(raw) : raw[e] = "}"}

BraceSpan(raw, starts) ==
    IF starts = {} THEN <<>>
    ELSE <<Min(starts), Max(Positions(raw, "}"))>>

\* re.search of an opening brace, brace-free text, the quoted anchor and
\* then greedily anything up to the last closing brace of the text
BraceMatch(raw) == BraceSpan(raw, BraceStarts(raw))

\* Strategy 1: the payload between the tags, when there is a tag pair
Strategy1(raw, m1) ==
    IF m1 = <<>> THEN None
    ELSE _repair_and_parse(SubSeq(raw, m1[1] + 1, m1[2] - 1))

\* Strategy 2: the brace span around the anchor, when there is one
Strategy2(raw, m2) ==
    IF m2 = <<>> THEN None
    ELSE _repair_and_parse(SubSeq(raw, m2[1], m2[2]))

\* Strategy 2 is tried whenever strategy 1 gave nothing; an exception of
\* strategy 1 leaves the function at once
FirstResult(raw, r1) ==
    IF r1 # None THEN r1 ELSE Strategy2(raw, BraceMatch(raw))

parse_report_json(raw) == FirstResult(raw, Strategy1(raw, TagMatch(raw)))

\* ------------------------------------------------------------------------
\* Floating-point numbers of the scoring functions
\* ------------------------------------------------------------------------
\* A double that is not negative is written as a whole number of units of
\* 2^-57, the spacing of the doubles next to the smallest weight 0.05; the
\* number is held in three limbs of 24 bits, the lowest first.  Every
\* product and sum of the scoring functions is a whole number of units.
LIMB == 16777216

Norm(x0, x1, x2) ==
    <<x0 % LIMB, (x1 + x0 \div LIMB) % LIMB, x2 + (x1 + x0 \div LIMB) \div LIMB>>

RECURSIVE BitLen(_)
BitLen(n) == IF n = 0 THEN 0 ELSE 1 + BitLen(n \div 2)

RECURSIVE Pow2(_)
Pow2(k) == IF k = 0 THEN 1 ELSE 2 * Pow2(k - 1)

\* The low limb with its remainder r below the spacing q taken off, and one
\* spacing added when the remainder is above the half, or is the half and
\* the last kept bit is odd: round to nearest, ties to even
RoundLow(n, q, r) ==
    IF 2 * r > q \/ (2 * r = q /\ (n[1] \div q) % 2 = 1)
    THEN Norm(n[1] - r + q, n[2], n[3])
    ELSE <<n[1] - r, n[2], n[3]>>

RoundAt(n, q) == RoundLow(n, q, n[1] % q)

\* The double nearest to the exact number n: 53 bits are kept.  The top
\* limb starts at bit 48, so a number of more than 53 bits has a top limb
\* of more than 5 bits.
RoundToDouble(n) ==
    IF BitLen(n[3]) <= 5 THEN n ELSE RoundAt(n, Pow2(BitLen(n[3]) - 5))

\* x * w for an int x in 0..100 and a double w
FMulInt(x, w) == RoundToDouble(Norm(x * w[1], x * w[2], x * w[3]))

\* a + b
FAdd(a, b) == RoundToDouble(Norm(a[1] + b[1], a[2] + b[2], a[3] + b[3]))

\* One unit is 2^-57 and the top limb starts at 2^48: the whole part of a
\* double is its top limb divided by 2^9
WHOLE == 512
HALF == 256

\* round(a) of Python: the nearest int, a tie goes to the even one
PyRound(a) ==
    IF a[3] % WHOLE > HALF
         \/ (a[3] % WHOLE = HALF /\ (a[2] > 0 \/ a[1] > 0))
    THEN a[3] \div WHOLE + 1
    ELSE IF a[3] % WHOLE = HALF /\ (a[3] \div WHOLE) % 2 = 1
    THEN a[3] \div WHOLE + 1
    ELSE a[3] \div WHOLE

\* The doubles of the weight literals
F005 == <<10066330, 10066329, 25>>
F010 == <<3355444, 3355443, 51>>
F015 == <<13421772, 13421772, 76>>
F020 == <<6710888, 6710886, 102>>
F025 == <<0, 0, 128>>
F030 == <<10066328, 10066329, 153>>
F035 == <<3355440, 3355443, 179>>
F040 == <<13421776, 13421772, 204>>

\* ------------------------------------------------------------------------
\* Risk scoring utilities
\* ------------------------------------------------------------------------
\* The weight tables: key, the weight in hundredths as it is written, and
\* the double of the literal
RISK_WEIGHTS ==
    <<[key |-> "customer_risk", pct |-> 40, w |-> F040],
      [key |-> "matter_risk", pct |-> 35, w |-> F035],
      [key |-> "jurisdiction_risk", pct |-> 20, w |-> F020],
      [key |-> "delivery_channel_risk", pct |-> 5, w |-> F005]>>

CUSTOMER_SF_WEIGHTS_Heavy ==
    <<[key |-> "sanctions_exposure", pct |-> 30, w |-> F030],
      [key |-> "pep_exposure", pct |-> 25, w |-> F025],
      [key |-> "adverse_media", pct |-> 20, w |-> F020],
      [key |-> "ownership_complexity", pct |-> 15, w |-> F015],
      [key |-> "identity_verification", pct |-> 15, w |-> F015]>>

CUSTOMER_SF_WEIGHTS ==
    <<[key |-> "sanctions_exposure", pct |-> 30, w |-> F030],
      [key |-> "pep_exposure", pct |-> 25, w |-> F025],
      [key |-> "adverse_media", pct |-> 20, w |-> F020],
      [key |-> "ownership_complexity", pct |-> 15, w |-> F015],
      [key |-> "identity_verification", pct |-> 10, w |-> F010]>>

MATTER_SF_WEIGHTS ==
    <<[key |-> "matter_type", pct |-> 40, w |-> F040],
      [key |-> "source_of_funds", pct |-> 40, w |-> F040],
      [key |-> "transaction_modifier", pct |-> 20, w |-> F020]>>

\* dict.get(key, default)
Get(dict, key, default) ==
    IF key \in DOMAIN dict THEN dict[key] ELSE default

EMPTY == <<>>

\* sum(sf.get(k, 0) * w for k, w in weights.items()): the products are
\* added one after the other in the order of the table, starting from 0
RECURSIVE WeightedSum(_, _, _, _)
WeightedSum(sf, weights, k, acc) ==
    IF k > Len(weights) THEN acc
    ELSE WeightedSum(sf, weights, k + 1,
            FAdd(acc, FMulInt(Get(sf, weights[k].key, 0), weights[k].w)))

calc_weighted_overall_Recomputed(components) ==
    PyRound(
      FAdd(FAdd(FAdd(
        FMulInt(PyRound(WeightedSum(
                  Get(Get(components, "customer_risk", EMPTY),
                      "sub_factors", EMPTY),
                  CUSTOMER_SF_WEIGHTS, 1, <<0, 0, 0>>)), F040),
        FMulInt(Get(Get(components, "matter_risk", EMPTY), "score", 0), F035)),
        FMulInt(Get(components, "jurisdiction_risk", 0), F020)),
        FMulInt(Get(components, "delivery_channel_risk", 0), F005)))

calc_weighted_overall(components) ==
    PyRound(
      FAdd(FAdd(FAdd(
        FMulInt(Get(Get(components, "customer_risk", EMPTY), "score", 0), F040),
        FMulInt(Get(Get(components, "matter_risk", EMPTY), "score", 0), F035)),
        FMulInt(Get(components, "jurisdiction_risk", 0), F020)),
        FMulInt(Get(components, "delivery_channel_risk", 0), F005)))

calc_weighted_customer(sf) ==
    PyRound(WeightedSum(sf, CUSTOMER_SF_WEIGHTS, 1, <<0, 0, 0>>))

calc_weighted_matter(sf) ==
    PyRound(WeightedSum(sf, MATTER_SF_WEIGHTS, 1, <<0, 0, 0>>))

Abs(n) == IF n < 0 THEN -n ELSE n

DISCREPANCY == 5

OverallNote_AtLeast(overall_calc, overall_ai) ==
    IF Abs(overall_calc - overall_ai) >= DISCREPANCY THEN {"overall"} ELSE {}

\* Line 920: the note on the overall score
OverallNote(overall_calc, overall_ai) ==
    IF Abs(overall_calc - overall_ai) > DISCREPANCY THEN {"overall"} ELSE {}

\* What render_risk_scoring puts on the page for the risk_scoring part of
\* a report: the self-reported and the computed scores side by side, and
\* the notes raised
Rendered(risk) ==
    LET comps == Get(risk, "components", EMPTY)
        cr    == Get(comps, "customer_risk", EMPTY)
        mr    == Get(comps, "matter_risk", EMPTY)
    IN  [cr_calc      |-> calc_weighted_customer(Get(cr, "sub_factors", EMPTY)),
         mr_calc      |-> calc_weighted_matter(Get(mr, "sub_factors", EMPTY)),
         overall_calc |-> calc_weighted_overall(comps),
         overall_ai   |-> Get(risk, "overall_risk_score", 0),
         cr_s         |-> Get(cr, "score", 0),
         mr_s         |-> Get(mr, "score", 0),
         jr           |-> Get(comps, "jurisdiction_risk", 0),
         dr           |-> Get(comps, "delivery_channel_risk", 0),
         notes        |-> OverallNote(calc_weighted_overall(comps),
                                      Get(risk, "overall_risk_score", 0))]

\* ------------------------------------------------------------------------
\* Score bands
\* ------------------------------------------------------------------------
score_level_Below(s) ==
    IF s < 25 THEN "Low"
    ELSE IF s <= 50 THEN "Medium"
    ELSE IF s <= 75 THEN "High"
    ELSE "Critical"

score_level(s) ==
    IF s <= 25 THEN "Low"
    ELSE IF s <= 50 THEN "Medium"
    ELSE IF s <= 75 THEN "High"
    ELSE "Critical"

score_color(s) ==
    IF s <= 25 THEN "#2e7d32"
    ELSE IF s <= 50 THEN "#e6a817"
    ELSE IF s <= 75 THEN "#e07b30"
    ELSE "#c62828"

score_bg(s) ==
    IF s <= 25 THEN "#e8f5e9"
    ELSE IF s <= 50 THEN "#fffde7"
    ELSE IF s <= 75 THEN "#fff3e0"
    ELSE "#ffebee"

\* ------------------------------------------------------------------------
\* Bounds of the model
\* ------------------------------------------------------------------------
\* The budgets explored: MAX_TOOL_CALLS ranges over 0..MaxBudget
MaxBudget == 1
\* A response holds at most MaxTools tool requests
MaxTools == 2
\* The reasoning service answers at most MaxCalls tool-enabled calls
MaxCalls == 2

\* ------------------------------------------------------------------------
\* A text is made of at most MaxPieces fragments
MaxPieces == 4
\* Values nest at most MaxDepth deep inside a report object
MaxDepth == 1
\* The scores explored are 0, 100 and 1..MaxScore
MaxScore == 3

\* ------------------------------------------------------------------------
\* The reasoning service and the tools (external collaborators)
\* ------------------------------------------------------------------------
\* A final text that carries a delimited report, and a narrative without one
GoodText ==
    <<OPEN_TAG, "{", QUOTE, ANCHOR, QUOTE, ":", QUOTE, "a", QUOTE, "}",
      CLOSE_TAG>>
BadText == <<"a", SPACE, "a">>
Texts == {GoodText, BadText}

REGISTERED == {"sanctions_screen", "web_search", "fetch_webpage"}
\* The field of its input each branch of the dispatch reads
RequiredField(name) ==
    CASE name = "sanctions_screen" -> "name"
      [] name = "web_search"       -> "query"
      [] name = "fetch_webpage"    -> "url"

\* Input objects of a tool request: without any field, and with every field
NoFields == [k \in {} |-> <<>>]
AllFields == [k \in {"name", "query", "url"} |-> <<"a">>]

\* The tool requests the service makes: name and input
Requests ==
    {<<"sanctions_screen", AllFields>>, <<"web_search", NoFields>>,
     <<"fetch_webpage", AllFields>>, <<"whois", NoFields>>}

TextBlock(t) == [type |-> "text", text |-> t]
ToolUse(id, name, input) ==
    [type |-> "tool_use", id |-> id, name |-> name, input |-> input]
ToolResult(id, content) ==
    [type |-> "tool_result", tool_use_id |-> id, content |-> content]

SeqsUpTo(S, n) == UNION {[1..k -> S] : k \in 0..n}

\* The content of a response: at most one text block, then the tool
\* requests; the ids are given by WithIds
Contents ==
    {t \o q : t \in {<<>>} \cup {<<TextBlock(x)>> : x \in Texts},
              q \in SeqsUpTo({ToolUse(0, r[1], r[2]) : r \in Requests},
                             MaxTools)}

\* The service gives every tool request of a session its own id
WithIds(content, call) ==
    [k \in 1..Len(content) |->
        IF content[k].type = "tool_use"
        THEN [content[k] EXCEPT !.id = call * 10 + k]
        ELSE content[k]]

STOP_REASONS == {"end_turn", "tool_use", "max_tokens"}

\* An answer without tool requests: a final answer
TextResponses ==
    {[stop_reason |-> "end_turn", content |-> c] :
        c \in {<<>>} \cup {<<TextBlock(x)>> : x \in Texts}}

\* What a call with the tool contract set may answer: a final answer, or
\* any content with the tool-request signal or with another signal
Responses(call) ==
    TextResponses \cup
    {[stop_reason |-> r, content |-> WithIds(c, call)] :
        r \in STOP_REASONS \ {"end_turn"}, c \in Contents}

\* The handlers return a result text or, on any failure, an error text
ToolOutputs == {<<"a", NEWLINE, "a">>}
UNKNOWN_TOOL == <<"Unknown tool.">>

PREVIEW_LEN == 200

\* result[:200].replace(newline, space)
Preview(result) ==
    LET cut == SubSeq(result, 1,
                      IF Len(result) < PREVIEW_LEN THEN Len(result)
                      ELSE PREVIEW_LEN)
    IN  [i \in 1..Len(cut) |-> IF cut[i] = NEWLINE THEN SPACE ELSE cut[i]]

\* ------------------------------------------------------------------------
\* run_cdd_research
\* ------------------------------------------------------------------------
VARIABLES
    MAX_TOOL_CALLS, \* the tool-call budget B of the session
    pc,             \* where the driver stands
    messages,       \* the conversation history
    audit_log,      \* one record per executed tool request
    response,       \* the last answer of a tool-enabled call
    idx,            \* position of the for loop in response.content
    results,        \* the tool results collected for the current turn
    raw,            \* the text handed to the extractor
    json_resp,      \* the answer of the corrective call
    request,        \* the last request sent to the reasoning service
    calls,          \* number of requests sent to the reasoning service
    ret             \* the returned tuple

\* The extractor applied on its own to a text
VARIABLES
    O,              \* the report object the text was serialized from
    raw_text,       \* the text under work
    report_data,    \* what parse_report_json returned for it
    stage           \* what has been applied to the text

extract_vars == <<O, raw_text, report_data, stage>>

\* The scoring section of the page
VARIABLES
    risk_scoring,   \* the risk_scoring part of the report under display
    shown           \* what render_risk_scoring has put on the page

score_vars == <<risk_scoring, shown>>

\* A score card of the page
VARIABLES
    card_score,     \* the score the card is made for
    card            \* the level, colour and background of the card

level_vars == <<card_score, card>>

\* The state outside run_cdd_research
aside == <<extract_vars, score_vars, level_vars>>

research_vars ==
    <<MAX_TOOL_CALLS, pc, messages, audit_log, response, idx, results,
      raw, json_resp, request, calls, ret>>

vars == <<research_vars, aside>>

\* No text is under work
ExtractIdle ==
    /\ O = None
    /\ raw_text = <<>>
    /\ report_data = None
    /\ stage = "idle"

\* Nothing is on display
NotShown == [notes |-> {}]

ScoreIdle ==
    /\ risk_scoring = EMPTY
    /\ shown = NotShown

\* No card is made
NoCard == [lvl |-> ""]

LevelIdle ==
    /\ card_score = 0
    /\ card = NoCard

Subjects == {<<"a">>}
Contexts == {<<>>}

\* The seed text: the subject, and the context when it is not blank
UserMsg(subject, context) ==
    <<"Subject to review: ">> \o subject \o
      (IF Strip(context) # <<>>
       THEN <<"Additional analyst context:">> \o Strip(context) ELSE <<>>)

Turn(role, content) == [role |-> role, content |-> content]

CORRECTIVE == <<"Output ONLY the JSON block">>

NoResponse == [stop_reason |-> "", content |-> <<>>]
NoRequest == [tools |-> FALSE, messages |-> <<>>]
NoReturn == [parsed |-> None, raw |-> <<>>, audit_log |-> <<>>, line |-> 0]

Init ==
    /\ MAX_TOOL_CALLS \in 0..MaxBudget
    /\ pc = "loop"
    /\ \E subject \in Subjects, context \in Contexts :
          messages = <<Turn("user", <<TextBlock(UserMsg(subject, context))>>)>>
    /\ audit_log = <<>>
    /\ response = NoResponse
    /\ idx = 0
    /\ results = <<>>
    /\ raw = <<>>
    /\ json_resp = NoResponse
    /\ request = NoRequest
    /\ calls = 0
    /\ ret = NoReturn
    /\ ExtractIdle
    /\ ScoreIdle
    /\ LevelIdle

\* next((b.text for b in content if b.type == "text"), default)
FirstText(content, default) ==
    LET ts == {k \in 1..Len(content) : content[k].type = "text"} IN
    IF ts = {} THEN default ELSE content[Min(ts)].text

WithCorrective_UserOnly(msgs, resp) ==
    msgs \o <<Turn("user", <<TextBlock(CORRECTIVE)>>)>>

\* The history with the last response and the corrective instruction added
WithCorrective(msgs, resp) ==
    msgs \o <<Turn("assistant", resp.content),
              Turn("user", <<TextBlock(CORRECTIVE)>>)>>

Return(parsed, text, line) ==
    /\ ret' = [parsed |-> parsed, raw |-> text, audit_log |-> audit_log,
               line |-> line]
    /\ pc' = "done"

\* Lines 418-435: the final-answer signal
EndTurn(resp) ==
    LET text == FirstText(resp.content, <<>>) IN
    /\ raw' = text
    /\ IF parse_report_json(text) # None
       THEN /\ Return(parse_report_json(text), text, 423)
            /\ UNCHANGED messages
       ELSE /\ messages' = WithCorrective(messages, resp)
            /\ pc' = "corrective_final"
            /\ UNCHANGED ret

AfterLoop_NoCorrective(resp) ==
    LET text == FirstText(resp.content, <<>>) IN
    /\ raw' = text
    /\ IF parse_report_json(text) = None /\ resp.stop_reason = "end_turn"
       THEN /\ messages' = WithCorrective(messages, resp)
            /\ pc' = "corrective_post"
            /\ UNCHANGED ret
       ELSE /\ Return(parse_report_json(text), text, 522)
            /\ UNCHANGED messages

\* Lines 501-513: after the loop
AfterLoop(resp) ==
    LET text == FirstText(resp.content, <<>>) IN
    /\ raw' = text
    /\ IF parse_report_json(text) = None
       THEN /\ messages' = WithCorrective(messages, resp)
            /\ pc' = "corrective_post"
            /\ UNCHANGED ret
       ELSE /\ Return(parse_report_json(text), text, 522)
            /\ UNCHANGED messages

WithinBudget_Off == Len(audit_log) <= MAX_TOOL_CALLS + 1

WithinBudget_Strict == Len(audit_log) < MAX_TOOL_CALLS

\* Line 407: the condition of the while loop
WithinBudget == Len(audit_log) <= MAX_TOOL_CALLS

\* Lines 407-449, 498-499: one pass of the while loop up to the first tool
LoopCall ==
    /\ pc = "loop"
    /\ WithinBudget
    /\ calls < MaxCalls
    /\ request' = [tools |-> TRUE, messages |-> messages]
    /\ calls' = calls + 1
    /\ \E resp \in Responses(calls + 1) :
          /\ response' = resp
          /\ \/ /\ resp.stop_reason = "end_turn"
                /\ EndTurn(resp)
                /\ UNCHANGED <<idx, results>>
             \/ /\ resp.stop_reason = "tool_use"
                /\ messages' = Append(messages, Turn("assistant", resp.content))
                /\ results' = <<>>
                /\ idx' = 1
                /\ pc' = "dispatch"
                /\ UNCHANGED <<raw, ret>>
             \/ /\ resp.stop_reason \notin {"end_turn", "tool_use"}
                /\ AfterLoop(resp)
                /\ UNCHANGED <<idx, results>>
    /\ UNCHANGED <<MAX_TOOL_CALLS, audit_log, json_resp, aside>>

\* Line 407 failing: the budget is used up
LoopExit ==
    /\ pc = "loop"
    /\ ~WithinBudget
    /\ AfterLoop(response)
    /\ UNCHANGED <<MAX_TOOL_CALLS, audit_log, response, idx, results,
                   json_resp, request, calls, aside>>

Record_Prepend(block, result) ==
    /\ audit_log' = Append(audit_log,
          [tool |-> block.name, input |-> block.input,
           result_preview |-> Preview(result)])
    /\ results' = <<ToolResult(block.id, result)>> \o results
    /\ idx' = idx + 1
    /\ UNCHANGED pc

Record_NoAudit(block, result) ==
    /\ audit_log' = audit_log
    /\ results' = Append(results, ToolResult(block.id, result))
    /\ idx' = idx + 1
    /\ UNCHANGED pc

\* Lines 478-495: the record and the result of one executed request
Record(block, result) ==
    /\ audit_log' = Append(audit_log,
          [tool |-> block.name, input |-> block.input,
           result_preview |-> Preview(result)])
    /\ results' = Append(results, ToolResult(block.id, result))
    /\ idx' = idx + 1
    /\ UNCHANGED pc

\* Lines 452-453: a block that is no tool request is passed over
SkipBlock ==
    /\ pc = "dispatch"
    /\ idx <= Len(response.content)
    /\ response.content[idx].type # "tool_use"
    /\ idx' = idx + 1
    /\ UNCHANGED <<MAX_TOOL_CALLS, pc, messages, audit_log, response,
                   results, raw, json_resp, request, calls, ret, aside>>

\* Lines 457-473: a request for a registered tool that carries its field
DispatchTool ==
    /\ pc = "dispatch"
    /\ idx <= Len(response.content)
    /\ LET block == response.content[idx] IN
          /\ block.type = "tool_use"
          /\ block.name \in REGISTERED
          /\ RequiredField(block.name) \in DOMAIN block.input
          /\ \E result \in ToolOutputs : Record(block, result)
    /\ UNCHANGED <<MAX_TOOL_CALLS, messages, response, raw, json_resp,
                   request, calls, ret, aside>>

\* Lines 458, 464, 470: the subscript of a missing field raises KeyError,
\* which nothing in run_cdd_research catches
DispatchKeyError ==
    /\ pc = "dispatch"
    /\ idx <= Len(response.content)
    /\ LET block == response.content[idx] IN
          /\ block.type = "tool_use"
          /\ block.name \in REGISTERED
          /\ RequiredField(block.name) \notin DOMAIN block.input
    /\ pc' = "fault"
    /\ UNCHANGED <<MAX_TOOL_CALLS, messages, audit_log, response, idx,
                   results, raw, json_resp, request, calls, ret, aside>>

DispatchUnknown_Skip ==
    /\ pc = "dispatch"
    /\ idx <= Len(response.content)
    /\ LET block == response.content[idx] IN
          /\ block.type = "tool_use"
          /\ block.name \notin REGISTERED
    /\ idx' = idx + 1
    /\ UNCHANGED <<MAX_TOOL_CALLS, pc, messages, audit_log, response,
                   results, raw, json_resp, request, calls, ret, aside>>

\* Lines 475-476: a request for a tool that is not registered
DispatchUnknown ==
    /\ pc = "dispatch"
    /\ idx <= Len(response.content)
    /\ LET block == response.content[idx] IN
          /\ block.type = "tool_use"
          /\ block.name \notin REGISTERED
          /\ Record(block, UNKNOWN_TOOL)
    /\ UNCHANGED <<MAX_TOOL_CALLS, messages, response, raw, json_resp,
                   request, calls, ret, aside>>

\* Line 497: the for loop is over, the results become one user turn
EndOfTurn ==
    /\ pc = "dispatch"
    /\ idx > Len(response.content)
    /\ messages' = Append(messages, Turn("user", results))
    /\ pc' = "loop"
    /\ UNCHANGED <<MAX_TOOL_CALLS, audit_log, response, idx, results, raw,
                   json_resp, request, calls, ret, aside>>

Raw2_NoFallback(resp, text) == FirstText(resp.content, <<>>)

\* Lines 443 and 520: the text of the corrective answer, else the text
\* the loop ended with
Raw2(resp, text) == FirstText(resp.content, text)

Corrective_Retry ==
    /\ pc \in {"corrective_final", "corrective_post"}
    /\ request' = [tools |-> FALSE, messages |-> messages]
    /\ calls' = calls + 1
    /\ \E resp \in TextResponses : \* no tools are sent (line 441)
          /\ json_resp' = resp
          /\ raw' = Raw2(resp, raw)
          /\ IF parse_report_json(Raw2(resp, raw)) = None /\ calls < MaxCalls
             THEN UNCHANGED <<pc, ret>>
             ELSE Return(parse_report_json(Raw2(resp, raw)), Raw2(resp, raw),
                         IF pc = "corrective_final" THEN 445 ELSE 522)
    /\ UNCHANGED <<MAX_TOOL_CALLS, messages, audit_log, response, idx,
                   results, aside>>

\* Lines 436-445 and 514-522: the corrective request and the return
Corrective ==
    /\ pc \in {"corrective_final", "corrective_post"}
    /\ request' = [tools |-> FALSE, messages |-> messages]
    /\ calls' = calls + 1
    /\ \E resp \in TextResponses : \* no tools are sent (line 441)
          /\ json_resp' = resp
          /\ raw' = Raw2(resp, raw)
          /\ Return(parse_report_json(Raw2(resp, raw)), Raw2(resp, raw),
                    IF pc = "corrective_final" THEN 445 ELSE 522)
    /\ UNCHANGED <<MAX_TOOL_CALLS, messages, audit_log, response, idx,
                   results, aside>>

Next ==
    \/ LoopCall
    \/ LoopExit
    \/ SkipBlock
    \/ DispatchTool
    \/ DispatchKeyError
    \/ DispatchUnknown
    \/ EndOfTurn
    \/ Corrective

Spec == Init /\ [][Next]_vars

\* ------------------------------------------------------------------------
\* The extractor on its own: parse_report_json applied to a text
\* ------------------------------------------------------------------------
\* The decimal digits of a natural number
DigitOf(n) ==
    CASE n = 0 -> "0" [] n = 1 -> "1" [] n = 2 -> "2" [] n = 3 -> "3"
      [] n = 4 -> "4" [] n = 5 -> "5" [] n = 6 -> "6" [] n = 7 -> "7"
      [] n = 8 -> "8" [] n = 9 -> "9"

RECURSIVE DumpNat(_)
DumpNat(n) ==
    IF n < 10 THEN <<DigitOf(n)>>
    ELSE Append(DumpNat(n \div 10), DigitOf(n % 10))

\* The characters of a string as the serializer writes them: the quote,
\* the backslash and the control characters are escaped, all else is kept
DumpChar(c) ==
    IF c \in {QUOTE, BACKSLASH} THEN <<BACKSLASH, c>>
    ELSE IF c = NEWLINE THEN <<BACKSLASH, "n">>
    ELSE IF c = TAB THEN <<BACKSLASH, "t">>
    ELSE <<c>>

RECURSIVE DumpChars(_)
DumpChars(str) ==
    IF str = <<>> THEN <<>>
    ELSE DumpChar(Head(str)) \o DumpChars(Tail(str))

DumpString(str) == <<QUOTE>> \o DumpChars(str) \o <<QUOTE>>

RECURSIVE json_dumps(_)
RECURSIVE DumpItems(_)
RECURSIVE DumpMembers(_, _)

\* The elements of a list, separated by comma and space
DumpItems(a) ==
    IF a = <<>> THEN <<>>
    ELSE IF Len(a) = 1 THEN json_dumps(a[1])
    ELSE json_dumps(a[1]) \o <<",", SPACE>> \o DumpItems(Tail(a))

DumpMember(f, k) == DumpString(k) \o <<":", SPACE>> \o json_dumps(f[k])

\* The orders in which a dict may hold the keys ks: a dict keeps its keys
\* in the order they were put in
KeyOrders(ks) ==
    {q \in [1..Cardinality(ks) -> ks] : \A k \in ks : \E i \in DOMAIN q : q[i] = k}

KeyOrder(ks) == CHOOSE q \in KeyOrders(ks) : TRUE

\* The members of a dict, one key after the other in the order given
DumpMembers(f, order) ==
    IF order = <<>> THEN <<>>
    ELSE IF Len(order) = 1 THEN DumpMember(f, order[1])
    ELSE DumpMember(f, Head(order)) \o <<",", SPACE>>
           \o DumpMembers(f, Tail(order))

\* json.dumps(v) with the default separators
json_dumps(v) ==
    CASE v.t = "None" -> <<"null">>
      [] v.t = "bool" -> IF v.v THEN <<"true">> ELSE <<"false">>
      [] v.t = "int"  -> DumpNat(v.v)
      [] v.t = "str"  -> DumpString(v.v)
      [] v.t = "list" -> <<"[">> \o DumpItems(v.v) \o <<"]">>
      [] v.t = "dict" ->
            <<"{">> \o DumpMembers(v.v, KeyOrder(DOMAIN v.v)) \o <<"}">>

\* json.dumps of a dict that holds its top-level keys in the order given
DumpReport(report, order) ==
    <<"{">> \o DumpMembers(report.v, order) \o <<"}">>

\* The payload between the two delimiters
Delimited(payload) == <<OPEN_TAG>> \o payload \o <<CLOSE_TAG>>

\* Values without parts
Leaves ==
    {JStr(<<"a">>), JStr(<<CLOSE_TAG>>), JStr(<<",", "}">>),
     JStr(<<BACKSLASH, NEWLINE, QUOTE>>), JNum(25), JBool(TRUE), None}

\* The keys of the objects explored
Keys == {<<ANCHOR>>, <<"a">>}

\* Dicts over a set of keys with values from a set
DictsOver(ks, vals) == UNION {{JObj(f) : f \in [sub -> vals]} : sub \in SUBSET ks}

\* Values nested at most n deep
RECURSIVE Values(_)
Values(n) ==
    IF n = 0 THEN Leaves
    ELSE Leaves \cup {JArr(<<>>)} \cup {JArr(<<v>>) : v \in Values(n - 1)}
                \cup DictsOver({<<"a">>}, Values(n - 1))

\* The report objects explored
Reports == DictsOver(Keys, Values(MaxDepth))

\* An object that holds the anchor key, as a text
ANCHOR_OBJECT == <<"{", QUOTE, ANCHOR, QUOTE, ":", "1", "}">>

\* The fragments a free text is made of
Fragments ==
    {<<OPEN_TAG>>, <<CLOSE_TAG>>, <<FENCE>>, <<NEWLINE>>, <<",">>, <<"}">>,
     <<"[">>, <<LONG_DIGITS>>, ANCHOR_OBJECT,
     <<"{", QUOTE, ANCHOR, QUOTE, ":", "1">>}

RECURSIVE Flatten(_)
Flatten(ps) == IF ps = <<>> THEN <<>> ELSE Head(ps) \o Flatten(Tail(ps))

\* The free texts: up to MaxPieces fragments in a row
FreeTexts == {Flatten(ps) : ps \in SeqsUpTo(Fragments, MaxPieces)}

\* The pieces a defective payload is made of
PayloadPieces ==
    {<<"{", QUOTE, ANCHOR, QUOTE, ":">>,
     <<QUOTE, "a", NEWLINE, "a", QUOTE>>,
     <<QUOTE, ",", "}", QUOTE>>,
     <<",">>, <<"}">>, <<"1">>, <<"[">>, <<"]">>, <<"true">>}

\* The payloads: up to MaxPieces pieces in a row
Payloads == {Flatten(ps) : ps \in SeqsUpTo(PayloadPieces, MaxPieces)}

\* The reports that hold the anchor key at their top level
AnchoredReports == {r \in Reports : <<ANCHOR>> \in DOMAIN r.v}

\* Text without braces around a bare object
Margins == {<<>>, <<"a", SPACE>>}

\* run_cdd_research is not running
ResearchIdle ==
    /\ MAX_TOOL_CALLS = 0
    /\ pc = "idle"
    /\ messages = <<>>
    /\ audit_log = <<>>
    /\ response = NoResponse
    /\ idx = 0
    /\ results = <<>>
    /\ raw = <<>>
    /\ json_resp = NoResponse
    /\ request = NoRequest
    /\ calls = 0
    /\ ret = NoReturn

ExtractInit ==
    /\ ResearchIdle
    /\ ScoreIdle
    /\ LevelIdle
    /\ \/ /\ O \in Reports
          /\ raw_text = Delimited(json_dumps(O))
       \/ /\ O \in AnchoredReports
          /\ \E order \in KeyOrders(DOMAIN O.v), pre \in Margins,
                post \in Margins :
                raw_text = pre \o DumpReport(O, order) \o post
       \/ /\ O = None
          /\ raw_text \in FreeTexts \cup {Delimited(b) : b \in Payloads}
    /\ report_data = None
    /\ stage = "input"

\* Lines 558-574: the extractor is run on the text
Extract ==
    /\ stage = "input"
    /\ report_data' = parse_report_json(raw_text)
    /\ stage' = "extracted"
    /\ UNCHANGED <<O, raw_text, research_vars, score_vars, level_vars>>

\* Line 542: the trailing-separator pass is run on the text, at most twice
TrailingCommaPass ==
    /\ stage \in {"input", "pass2"}
    /\ raw_text' = RemoveTrailingCommas(raw_text, 1)
    /\ stage' = IF stage = "input" THEN "pass2" ELSE "pass2 twice"
    /\ UNCHANGED <<O, report_data, research_vars, score_vars, level_vars>>

ExtractNext ==
    \/ Extract
    \/ TrailingCommaPass

ExtractSpec == ExtractInit /\ [][ExtractNext]_vars

\* ------------------------------------------------------------------------
\* The scoring section on its own: render_risk_scoring applied to a report
\* ------------------------------------------------------------------------
ScoreValues == {0, 100} \cup (1..MaxScore)

\* The overall scores a report states: also 5 and 6 above the scores
ReportedScores == ScoreValues \cup {MaxScore + 5, MaxScore + 6}

\* The dicts over some of the keys with values from a set
Dicts(keys, vals) == UNION {[sub -> vals] : sub \in SUBSET keys}

KeysOf(weights) == {weights[k].key : k \in 1..Len(weights)}

\* Reports that state sub-factors of one component, and 0 as its score
WithSubFactors(component, weights) ==
    {("components" :>
        (component :> [score |-> 0, sub_factors |-> sf])) :
        sf \in Dicts(KeysOf(weights), ScoreValues)}

\* A component score is held in a dict of its own, the two others are not
AsComponent(key, score) ==
    IF key \in {"customer_risk", "matter_risk"}
    THEN ("score" :> score) ELSE score

\* Reports that state the four component scores and the overall score
WithComponents ==
    {[k \in DOMAIN top \cup {"components"} |->
         IF k = "components"
         THEN [c \in DOMAIN f |-> AsComponent(c, f[c])]
         ELSE top[k]] :
        f \in Dicts(KeysOf(RISK_WEIGHTS), ScoreValues),
        top \in Dicts({"overall_risk_score"}, ReportedScores)}

ScoreInputs ==
    WithSubFactors("customer_risk", CUSTOMER_SF_WEIGHTS)
      \cup WithSubFactors("matter_risk", MATTER_SF_WEIGHTS)
      \cup WithComponents

ScoreInit ==
    /\ ResearchIdle
    /\ ExtractIdle
    /\ LevelIdle
    /\ risk_scoring \in ScoreInputs
    /\ shown = NotShown

render_risk_scoring_WriteBack ==
    /\ "cr_calc" \notin DOMAIN shown
    /\ shown' = Rendered(risk_scoring)
    /\ risk_scoring' =
          [k \in DOMAIN risk_scoring \cup {"overall_risk_score"} |->
              IF k = "overall_risk_score"
              THEN Rendered(risk_scoring).overall_calc
              ELSE risk_scoring[k]]
    /\ UNCHANGED <<research_vars, extract_vars, level_vars>>

\* Lines 852-924: the section is rendered
render_risk_scoring ==
    /\ "cr_calc" \notin DOMAIN shown
    /\ shown' = Rendered(risk_scoring)
    /\ UNCHANGED <<risk_scoring, research_vars, extract_vars, level_vars>>

ScoreNext == render_risk_scoring

ScoreSpec == ScoreInit /\ [][ScoreNext]_vars

\* ------------------------------------------------------------------------
\* A score card on its own: score_card_html applied to a score
\* ------------------------------------------------------------------------
\* The scores of the scale
SCALE == 0..100

LevelInit ==
    /\ ResearchIdle
    /\ ExtractIdle
    /\ ScoreIdle
    /\ card_score \in SCALE
    /\ card = NoCard

\* Lines 625-634: the level, the colour and the background of a card
score_card_html ==
    /\ card = NoCard
    /\ card' = [lvl   |-> score_level(card_score),
                color |-> score_color(card_score),
                bg    |-> score_bg(card_score)]
    /\ UNCHANGED <<card_score, research_vars, extract_vars, score_vars>>

LevelNext == score_card_html

LevelSpec == LevelInit /\ [][LevelNext]_vars

\* ------------------------------------------------------------------------
\* Properties of run_cdd_research
\* ------------------------------------------------------------------------
IsToolUse(b) == b.type = "tool_use"

\* The tool requests of a content, in the order the service emitted them
ToolUsesOf(content) == SelectSeq(content, IsToolUse)

UseIdSeq(content) ==
    [k \in 1..Len(ToolUsesOf(content)) |-> ToolUsesOf(content)[k].id]

\* A user turn made of tool results only (line 497)
IsResults(turn) ==
    /\ turn.role = "user"
    /\ \A k \in 1..Len(turn.content) : turn.content[k].type = "tool_result"

ResultIdSeq(turn) ==
    [k \in 1..Len(turn.content) |-> turn.content[k].tool_use_id]

Range(f) == {f[k] : k \in DOMAIN f}

\* The corrective request has been sent
CorrSent == ~request.tools /\ request.messages # <<>>

AtCorrective == pc \in {"corrective_final", "corrective_post"}

\* The text of the last answer of a tool-enabled call
LastText == FirstText(response.content, <<>>)

HasText(content) == \E k \in 1..Len(content) : content[k].type = "text"

\* C1: a session sends at most B + 2 requests to the reasoning service,
\* the loop calls and the corrective call together.
C1_CallBound == calls <= MAX_TOOL_CALLS + 2

\* C2: in every history sent to the reasoning service, each assistant turn
\* that holds tool requests is immediately followed by a turn of tool
\* results, exactly one for each request and keyed to its id.
C2_Paired ==
    \A i \in 1..Len(request.messages) :
       (/\ request.messages[i].role = "assistant"
        /\ ToolUsesOf(request.messages[i].content) # <<>>)
       => /\ i < Len(request.messages)
          /\ IsResults(request.messages[i + 1])
          /\ Len(request.messages[i + 1].content)
               = Len(ToolUsesOf(request.messages[i].content))
          /\ Range(ResultIdSeq(request.messages[i + 1]))
               = Range(UseIdSeq(request.messages[i].content))

\* While a tool-request response is dispatched, the results collected and
\* the newest audit records are those of the requests before the current
\* block, in the order of the requests.
C3_Dispatching ==
    pc = "dispatch" =>
      LET done == ToolUsesOf(SubSeq(response.content, 1, idx - 1))
          n    == Len(audit_log) - Len(done)
      IN  /\ Len(results) = Len(done)
          /\ n >= 0
          /\ \A k \in 1..Len(done) :
                /\ results[k].tool_use_id = done[k].id
                /\ audit_log[n + k].tool = done[k].name
                /\ audit_log[n + k].input = done[k].input

\* A request sent after a tool-request response carries that response
\* followed at once by the results of all its requests, in their order.
C3_Step ==
    (calls' = calls + 1 /\ response.stop_reason = "tool_use") =>
       \E i \in 1..(Len(request'.messages) - 1) :
          /\ request'.messages[i].role = "assistant"
          /\ request'.messages[i].content = response.content
          /\ IsResults(request'.messages[i + 1])
          /\ ResultIdSeq(request'.messages[i + 1])
               = UseIdSeq(response.content)

\* C3: within one tool-request response the tools run one at a time in
\* the order of the requests, the audit records and the results of the
\* aggregate turn keep that order, and the next request to the service is
\* sent only when the history holds a result for every request.
C3_InOrder == []C3_Dispatching /\ [][C3_Step]_vars

C3_Witness ==
    /\ calls >= 2
    /\ \E i \in 1..Len(request.messages) :
          /\ IsResults(request.messages[i])
          /\ Len(request.messages[i].content) >= 2

\* C4: a tool-enabled call is sent only while the audit log holds at most
\* B records; the dispatch of a response is left only for the loop head,
\* with a result for every request of the response, however far the
\* counter has passed B; no call is sent during the dispatch.
C4_BudgetAtLoopHead ==
    [][/\ (calls' = calls + 1 /\ request'.tools)
            => Len(audit_log) <= MAX_TOOL_CALLS
       /\ (pc = "dispatch" /\ pc' \notin {"dispatch", "fault"})
            => /\ pc' = "loop"
               /\ Len(results) = Len(ToolUsesOf(response.content))
               /\ messages' = Append(messages, Turn("user", results))
       /\ pc = "dispatch" => calls' = calls]_vars

C4_Witness ==
    /\ pc = "loop"
    /\ Len(audit_log) > MAX_TOOL_CALLS + 1

\* C5 as stated: with budget 0 the session returns with an empty audit log.
C5_Original ==
    (MAX_TOOL_CALLS = 0 /\ pc = "done") => ret.audit_log = <<>>

\* C5 amended: with budget 0 the seed call is made with the tools enabled;
\* tools run for the requests of one response only, the last one received,
\* and a session that returns after a tool-request response has run every
\* request of it.
C5_Amended ==
    MAX_TOOL_CALLS = 0 =>
      /\ pc = "done" => response # NoResponse
      /\ audit_log # <<>> =>
            /\ response.stop_reason = "tool_use"
            /\ Len(audit_log) <= Len(ToolUsesOf(response.content))
            /\ \A k \in 1..Len(audit_log) :
                  audit_log[k].tool = ToolUsesOf(response.content)[k].name
      /\ (pc = "done" /\ response.stop_reason = "tool_use")
            => /\ ret.audit_log # <<>>
               /\ Len(ret.audit_log) = Len(ToolUsesOf(response.content))

C5_Witness ==
    /\ MAX_TOOL_CALLS = 0
    /\ pc = "done"
    /\ Len(ret.audit_log) >= 2

C6_Returned ==
    CorrSent =>
      /\ pc = "done"
      /\ ret.audit_log = audit_log
      /\ ret.parsed = parse_report_json(ret.raw)

C6_Step ==
    /\ CorrSent => (calls' = calls /\ audit_log' = audit_log)
    /\ (calls' = calls + 1 /\ ~request'.tools)
         => (~CorrSent /\ audit_log' = audit_log /\ pc' = "done")

C7_Original == (AtCorrective \/ CorrSent) => response.stop_reason = "end_turn"

\* C7 amended: the corrective request is sent exactly when extraction of
\* the text of the last loop response fails, whichever way the loop ended:
\* final answer, budget used up or another signal.
C7_Amended ==
    /\ (AtCorrective \/ CorrSent) => parse_report_json(LastText) = None
    /\ (pc = "done" /\ ~CorrSent)
         => /\ parse_report_json(LastText) # None
            /\ ret.parsed = parse_report_json(LastText)
            /\ ret.raw = LastText

C7_Witness ==
    /\ CorrSent
    /\ response.stop_reason = "tool_use"
    /\ audit_log # <<>>

C9_NoFault == pc # "fault"

C10_Results ==
    \A i \in 1..(Len(messages) - 1) :
       (/\ messages[i].role = "assistant"
        /\ IsResults(messages[i + 1])
        /\ Len(messages[i + 1].content) = Len(ToolUsesOf(messages[i].content)))
       => \A k \in 1..Len(messages[i + 1].content) :
             ToolUsesOf(messages[i].content)[k].name \notin REGISTERED
             => messages[i + 1].content[k]
                  = ToolResult(ToolUsesOf(messages[i].content)[k].id,
                               UNKNOWN_TOOL)

C10_Step ==
    (/\ pc = "dispatch"
     /\ idx <= Len(response.content)
     /\ response.content[idx].type = "tool_use"
     /\ response.content[idx].name \notin REGISTERED)
    => /\ results' = Append(results,
                            ToolResult(response.content[idx].id, UNKNOWN_TOOL))
       /\ Len(audit_log') = Len(audit_log) + 1
       /\ SubSeq(audit_log', 1, Len(audit_log)) = audit_log
       /\ audit_log'[Len(audit_log')].tool = response.content[idx].name
       /\ audit_log'[Len(audit_log')].result_preview = Preview(UNKNOWN_TOOL)
       /\ pc' = "dispatch"
       /\ idx' = idx + 1

\* C10: a request for a tool that is not registered gets the fixed result
\* text, keyed to the request; an audit record is appended for it all the
\* same, and the dispatch goes on with the next block.
C10_UnknownTool == []C10_Results /\ [][C10_Step]_vars

C10_Witness ==
    /\ calls >= 2
    /\ request.tools
    /\ \E i \in 1..Len(request.messages) :
          /\ IsResults(request.messages[i])
          /\ Len(request.messages[i].content) >= 1
          /\ request.messages[i].content[1].content = UNKNOWN_TOOL

IsToolResult(b) == b.type = "tool_result"

\* The number of tool results in the turns of a history from turn i on
RECURSIVE ResultCount(_, _)
ResultCount(msgs, i) ==
    IF i > Len(msgs) THEN 0
    ELSE Len(SelectSeq(msgs[i].content, IsToolResult))
           + ResultCount(msgs, i + 1)

\* The results collected for the turn under dispatch, not yet in the history
Pending == IF pc \in {"dispatch", "fault"} THEN Len(results) ELSE 0

\* The log holds one record for each tool result made for the service
C11_Length ==
    /\ Len(audit_log) = ResultCount(messages, 1) + Pending
    /\ request.messages # <<>>
         => ResultCount(request.messages, 1) <= Len(audit_log)

C11_Step ==
    /\ Len(audit_log') >= Len(audit_log)
    /\ SubSeq(audit_log', 1, Len(audit_log)) = audit_log
    /\ audit_log' # audit_log
         => /\ pc = "dispatch" /\ pc' = "dispatch"
            /\ idx <= Len(response.content)
            /\ IsToolUse(response.content[idx])
            /\ Len(audit_log') = Len(audit_log) + 1
            /\ audit_log'[Len(audit_log) + 1].tool = response.content[idx].name
            /\ audit_log'[Len(audit_log) + 1].input
                 = response.content[idx].input
            /\ Len(results') = Len(results) + 1
            /\ results'[Len(results')].tool_use_id = response.content[idx].id
            /\ idx' = idx + 1
    /\ (/\ pc = "dispatch" /\ idx' = idx + 1
        /\ IsToolUse(response.content[idx]))
         => Len(audit_log') = Len(audit_log) + 1
    /\ (calls' = calls + 1)
         => ResultCount(request'.messages, 1) = Len(audit_log)

\* C11: every dispatched tool request appends exactly one record to the
\* audit log, in the same step that makes its result and before the next
\* block is looked at; the records already in the log are never changed or
\* removed, so the new record stands at position counter + 1; the log is
\* as long as the number of tool results made for the service, and every
\* request sent to the service carries as many results as the log is long.
C11_AppendOnly == []C11_Length /\ [][C11_Step]_vars

C11_Witness ==
    /\ request.tools
    /\ calls >= 2
    /\ pc = "loop"
    /\ Len(audit_log) >= 3
    /\ ResultCount(messages, 1) = Len(audit_log)

\* The turns of a history are user and assistant in turn, from a user turn
\* to a user turn
Alternates(msgs) ==
    /\ Len(msgs) % 2 = 1
    /\ \A i \in 1..Len(msgs) :
          msgs[i].role = IF i % 2 = 1 THEN "user" ELSE "assistant"

\* C26: every history sent to the reasoning service, by a loop call or by
\* the corrective call, starts with a user turn, ends with a user turn and
\* strictly alternates user and assistant turns.
C26_Alternation == calls > 0 => Alternates(request.messages)

C26_Witness ==
    /\ CorrSent
    /\ response.stop_reason = "tool_use"
    /\ Len(request.messages) >= 5
    /\ Alternates(request.messages)
    /\ request.messages[Len(request.messages)].content
         = <<TextBlock(CORRECTIVE)>>

\* ------------------------------------------------------------------------
\* Properties of parse_report_json
\* ------------------------------------------------------------------------
\* C12: round trip: the text made by serializing a report object O between
\* the two delimiters is extracted to an object deep-equal to O.
C12_RoundTrip ==
    (stage = "extracted" /\ O # None /\ raw_text = Delimited(json_dumps(O)))
    => report_data = O

\* C13: the trailing-separator pass is idempotent: run on a text that is
\* itself the result of the pass, it returns that text unchanged.
C13_Idempotent ==
    [][(stage = "pass2" /\ stage' = "pass2 twice")
         => raw_text' = raw_text]_vars

\* The delimited payload of a text, where it has a delimiter pair
PayloadOf(txt, m1) ==
    IF m1 = <<>> THEN {} ELSE {SubSeq(txt, m1[1] + 1, m1[2] - 1)}

\* The brace span around the anchor, where the text has one
SpanOf(txt, m2) ==
    IF m2 = <<>> THEN {} ELSE {SubSeq(txt, m2[1], m2[2])}

\* What the repairs make of the payload and of the span
Candidates(txt) ==
    {_repair_and_parse(b) :
        b \in PayloadOf(txt, TagMatch(txt)) \cup SpanOf(txt, BraceMatch(txt))}

\* C14: the extractor returns a non-null result only when the delimited
\* payload or the brace span around the anchor parses after the repairs,
\* null for every other text, and raises for no text.
C14_NullNeverRaise ==
    stage = "extracted" =>
      /\ report_data # Raised
      /\ report_data # None => report_data \in Candidates(raw_text)
      /\ Candidates(raw_text) \subseteq {None} => report_data = None

\* C15: the brace-span fallback is tried only for a text without a
\* delimiter pair: when a pair is found and its payload fails every repair
\* pass, the extractor returns null.
C15_NoFallbackWithPair ==
    (/\ stage = "extracted"
     /\ TagMatch(raw_text) # <<>>
     /\ Strategy1(raw_text, TagMatch(raw_text)) = None)
    => report_data = None

\* The delimited payload of the text under work, trimmed and unfenced
HasPair == TagMatch(raw_text) # <<>>
Payload ==
    SubSeq(raw_text, TagMatch(raw_text)[1] + 1, TagMatch(raw_text)[2] - 1)
Blob == Unfenced(Payload)
Blob2 == RemoveTrailingCommas(Blob, 1)

\* What the decoder makes of the blob as it stands, of the blob with the
\* trailing separators removed, and of that with the newlines collapsed
FirstParse == json_loads(Blob)
SecondParse == json_loads(Blob2)
ThirdParse == json_loads(CollapseNewlines(Blob2))

\* The decoder refused the text with a JSONDecodeError
Refused(r) == ~r.ok /\ r.val = None

\* The value v is what the repairs give for the payload, and what the
\* extractor returns when it is not null
ReturnedAs(v) ==
    /\ _repair_and_parse(Payload) = v
    /\ v # None => report_data = v

\* C23: the repair passes are applied one after the other, each only when
\* the one before failed: a delimited payload that parses as it stands,
\* once trimmed, is returned as it parsed, untouched by the two repairs;
\* the payload with the trailing separators removed is used only when that
\* failed, and the newline pass only when this failed as well.
C23_Layered ==
    (stage = "extracted" /\ HasPair) =>
      /\ FirstParse.ok => ReturnedAs(FirstParse.val)
      /\ (Refused(FirstParse) /\ SecondParse.ok)
           => ReturnedAs(SecondParse.val)
      /\ (Refused(FirstParse) /\ Refused(SecondParse) /\ ThirdParse.ok)
           => ReturnedAs(ThirdParse.val)

C23_Witness ==
    /\ stage = "extracted"
    /\ HasPair
    /\ FirstParse.ok
    /\ SecondParse.ok
    /\ SecondParse.val # FirstParse.val
    /\ report_data = FirstParse.val

\* C24: a text without a delimiter pair that holds exactly one well-formed
\* object with the anchor key at its top level, and only brace-free text
\* around it, is extracted to that object, wherever the anchor key stands
\* among the keys and whatever nested objects the object holds.
C24_BraceSpan ==
    (stage = "extracted" /\ O \in AnchoredReports /\ ~HasPair)
    => report_data = O

\* The character an escape sequence stands for
Unescape(c) == IF c = "n" THEN NEWLINE ELSE IF c = "t" THEN TAB ELSE c

\* The text of the string literal whose body starts at position i, up to
\* its closing quote, read as it is written
RECURSIVE LiteralBody(_, _, _)
LiteralBody(s, i, acc) ==
    IF i > Len(s) THEN [closed |-> FALSE, lit |-> acc, next |-> i]
    ELSE IF s[i] = QUOTE THEN [closed |-> TRUE, lit |-> acc, next |-> i + 1]
    ELSE IF s[i] = BACKSLASH /\ i + 1 <= Len(s)
    THEN LiteralBody(s, i + 2, Append(acc, Unescape(s[i + 1])))
    ELSE LiteralBody(s, i + 1, Append(acc, s[i]))

\* The texts of the string literals of s from position i on
RECURSIVE Literals(_, _)
LiteralsAfter(s, b) ==
    (IF b.closed THEN {b.lit} ELSE {}) \cup Literals(s, b.next)

Literals(s, i) ==
    IF i > Len(s) THEN {}
    ELSE IF s[i] = QUOTE THEN LiteralsAfter(s, LiteralBody(s, i + 1, <<>>))
    ELSE Literals(s, i + 1)

\* The string values a JSON value holds, at any depth
RECURSIVE StringValues(_)
StringValues(v) ==
    IF v.t = "str" THEN {v.v}
    ELSE IF v.t \in {"list", "dict"}
    THEN UNION {StringValues(v.v[k]) : k \in DOMAIN v.v}
    ELSE {}

\* C25: an extraction that succeeded through the trailing-separator repair
\* changed separators outside string literals only: every string value of
\* the returned report is the text of a string literal of the payload, a
\* comma followed by a closing brace or bracket inside a string included.
C25_StringsKept ==
    (/\ stage = "extracted" /\ HasPair
     /\ Refused(FirstParse) /\ SecondParse.ok
     /\ report_data = SecondParse.val)
    => StringValues(report_data) \subseteq Literals(Blob, 1)

\* C27: the extractor returns either null or a JSON object: a payload that
\* parses to an array, a string, a number or a boolean is never returned
\* as the report.
C27_DictOrNull ==
    (stage = "extracted" /\ report_data # Raised)
    => report_data.t \in {"None", "dict"}

\* ------------------------------------------------------------------------
\* Properties of the risk scoring
\* ------------------------------------------------------------------------
IsRendered == "cr_calc" \in DOMAIN shown

\* The parts of the report the scoring reads, a missing part being empty
Components == Get(risk_scoring, "components", EMPTY)
CustomerSF ==
    Get(Get(Components, "customer_risk", EMPTY), "sub_factors", EMPTY)
MatterSF ==
    Get(Get(Components, "matter_risk", EMPTY), "sub_factors", EMPTY)

\* The exact weighted sum in hundredths, a missing input counting as 0
RECURSIVE ExactSum(_, _, _)
ExactSum(dict, weights, k) ==
    IF k > Len(weights) THEN 0
    ELSE weights[k].pct * Get(dict, weights[k].key, 0)
           + ExactSum(dict, weights, k + 1)

\* The exact overall sum in hundredths, of the self-reported scores
ExactOverall ==
    40 * Get(Get(Components, "customer_risk", EMPTY), "score", 0)
      + 35 * Get(Get(Components, "matter_risk", EMPTY), "score", 0)
      + 20 * Get(Components, "jurisdiction_risk", 0)
      + 5 * Get(Components, "delivery_channel_risk", 0)

\* n is an integer nearest to e hundredths
Nearest(n, e) == Abs(100 * n - e) <= 50

\* Scenario C: sanctions 100, the four other sub-factors 0
ScenarioC ==
    [k \in KeysOf(CUSTOMER_SF_WEIGHTS) |->
        IF k = "sanctions_exposure" THEN 100 ELSE 0]

\* C16: the computed customer, matter and overall scores are the
\* fixed-weight sums rounded to a nearest integer; the overall is made of
\* the self-reported component scores; a missing input counts as 0; and
\* sanctions 100 with the other customer sub-factors 0 gives 30.
C16_WeightedSums ==
    IsRendered =>
      /\ Nearest(shown.cr_calc, ExactSum(CustomerSF, CUSTOMER_SF_WEIGHTS, 1))
      /\ Nearest(shown.mr_calc, ExactSum(MatterSF, MATTER_SF_WEIGHTS, 1))
      /\ Nearest(shown.overall_calc, ExactOverall)
      /\ CustomerSF = ScenarioC => shown.cr_calc = 30

C16_Witness ==
    /\ IsRendered
    /\ CustomerSF = ScenarioC
    /\ shown.cr_calc = 30
    /\ shown.overall_calc = 0

\* The composite made of e hundredths is e rounded with ties going up
TiesUp(n, e) == n = (e + 50) \div 100

\* C17: every computed composite is its weighted sum rounded to the
\* nearest integer, a sum with fractional part one half giving the next
\* higher integer.
C17_TiesRoundUp ==
    IsRendered =>
      /\ TiesUp(shown.cr_calc, ExactSum(CustomerSF, CUSTOMER_SF_WEIGHTS, 1))
      /\ TiesUp(shown.mr_calc, ExactSum(MatterSF, MATTER_SF_WEIGHTS, 1))
      /\ TiesUp(shown.overall_calc, ExactOverall)

\* The sum of the declared weights in hundredths, and as doubles
RECURSIVE PctSum(_, _)
PctSum(weights, k) ==
    IF k > Len(weights) THEN 0 ELSE weights[k].pct + PctSum(weights, k + 1)

RECURSIVE FloatSum(_, _, _)
FloatSum(weights, k, acc) ==
    IF k > Len(weights) THEN acc
    ELSE FloatSum(weights, k + 1, FAdd(acc, weights[k].w))

F100 == <<0, 0, WHOLE>>

SumsToOne(weights) ==
    /\ PctSum(weights, 1) = 100
    /\ FloatSum(weights, 1, <<0, 0, 0>>) = F100

\* C18: for sub-factors and components in 0..100 each computed composite
\* lies in 0..100, and each of the three weight sets sums to exactly 1.
C18_RangeAndWeights ==
    /\ SumsToOne(CUSTOMER_SF_WEIGHTS)
    /\ SumsToOne(MATTER_SF_WEIGHTS)
    /\ SumsToOne(RISK_WEIGHTS)
    /\ IsRendered =>
         /\ shown.cr_calc \in 0..100
         /\ shown.mr_calc \in 0..100
         /\ shown.overall_calc \in 0..100

C18_Witness ==
    /\ IsRendered
    /\ CustomerSF = [k \in KeysOf(CUSTOMER_SF_WEIGHTS) |-> 100]
    /\ shown.cr_calc = 100

\* C19: the note on the overall score is raised if and only if the
\* computed and the self-reported overall score differ by more than 5: not
\* at a difference of 5, and at a difference of 6, in either direction.
C19_OverallNote ==
    IsRendered =>
      /\ shown.overall_calc = calc_weighted_overall(Components)
      /\ shown.overall_ai = Get(risk_scoring, "overall_risk_score", 0)
      /\ "overall" \in shown.notes
           <=> Abs(shown.overall_calc - shown.overall_ai) > 5
      /\ Abs(shown.overall_calc - shown.overall_ai) = 5
           => "overall" \notin shown.notes
      /\ Abs(shown.overall_calc - shown.overall_ai) = 6
           => "overall" \in shown.notes

C19_Witness ==
    /\ IsRendered
    /\ shown.overall_ai - shown.overall_calc = 5
    /\ shown.overall_calc > 0
    /\ "overall" \notin shown.notes

\* C20: for the customer and the matter score a discrepancy indicator is
\* raised whenever the computed value differs from the self-reported score
\* of the component by more than 5.
C20_ComponentNotes ==
    IsRendered =>
      /\ Abs(shown.cr_calc - shown.cr_s) > 5 => "customer" \in shown.notes
      /\ Abs(shown.mr_calc - shown.mr_s) > 5 => "matter" \in shown.notes

\* The self-reported scores of a report as the page states them
Reported(risk) ==
    [overall_ai |-> Get(risk, "overall_risk_score", 0),
     cr_s |-> Get(Get(Get(risk, "components", EMPTY), "customer_risk", EMPTY),
                  "score", 0),
     mr_s |-> Get(Get(Get(risk, "components", EMPTY), "matter_risk", EMPTY),
                  "score", 0),
     jr   |-> Get(Get(risk, "components", EMPTY), "jurisdiction_risk", 0),
     dr   |-> Get(Get(risk, "components", EMPTY), "delivery_channel_risk", 0)]

\* C21: reconciliation leaves the report unchanged: the step that computes
\* and displays the customer, matter and overall scores keeps the report,
\* with every self-reported score in it, as it was; the page states the
\* self-reported scores as the report holds them, and the computed values
\* stand beside them on the page only.
C21_ReportUnchanged ==
    [][/\ risk_scoring' = risk_scoring
       /\ (~IsRendered /\ IsRendered')
            => /\ \A k \in DOMAIN Reported(risk_scoring) :
                    shown'[k] = Reported(risk_scoring)[k]
               /\ shown'.cr_calc = calc_weighted_customer(CustomerSF)
               /\ shown'.mr_calc = calc_weighted_matter(MatterSF)
               /\ shown'.overall_calc = calc_weighted_overall(Components)]_vars

C21_Witness ==
    /\ IsRendered
    /\ "overall_risk_score" \in DOMAIN risk_scoring
    /\ risk_scoring.overall_risk_score = shown.overall_ai
    /\ shown.overall_calc > shown.overall_ai
    /\ shown.overall_ai > 0

\* ------------------------------------------------------------------------
\* Properties of the score bands
\* ------------------------------------------------------------------------
\* The band of the scale a level names
Band(lvl) ==
    CASE lvl = "Low"      -> 0..25
      [] lvl = "Medium"   -> 26..50
      [] lvl = "High"     -> 51..75
      [] lvl = "Critical" -> 76..100

LEVELS == {"Low", "Medium", "High", "Critical"}

\* C22: on the integers 0..100 score_level gives exactly one of four
\* levels, Low on 0..25, Medium on 26..50, High on 51..75 and Critical on
\* 76..100, the bands covering the scale without gap or overlap; the
\* colour and the background of a score are shared by exactly the scores
\* of its band, so that they change at the same boundaries.
C22_Bands ==
    /\ UNION {Band(l) : l \in LEVELS} = SCALE
    /\ \A l1, l2 \in LEVELS : l1 # l2 => Band(l1) \cap Band(l2) = {}
    /\ card # NoCard =>
         /\ card.lvl \in LEVELS
         /\ card_score \in Band(card.lvl)
         /\ \A t \in SCALE :
               /\ score_level(t) = card.lvl <=> t \in Band(card.lvl)
               /\ score_color(t) = card.color <=> t \in Band(card.lvl)
               /\ score_bg(t) = card.bg <=> t \in Band(card.lvl)

C22_Witness ==
    /\ card_score = 25
    /\ card # NoCard
    /\ card.lvl = "Low"
    /\ score_level(26) = "Medium"

====
